---- MODULE Spec2Model ----
(***************************************************************************)
(* A model of the keep-mcp tool handlers (src/server/cli.py): eight tool   *)
(* functions that drive one shared Google Keep client.  The state is the   *)
(* client's in-memory note graph, its label table and its pending-changes  *)
(* flag; every handler is one action that runs the handler from its first  *)
(* line to its return (or to the fault it raises).                         *)
(*                                                                         *)
(* keep_api.py (get_client, serialize_note, can_modify_note) is not among  *)
(* the source files: can_modify_note follows section 4.1 of the            *)
(* specification.  The Keep client library is external; its calls are      *)
(* modelled by their effect on the note graph.                             *)
(***************************************************************************)
EXTENDS Integers, Sequences, FiniteSets, TLC

VARIABLES
    notes,          \* the client's note graph: note id -> note (ids are 1..Len)
    labelExists,    \* whether findLabel('keep-mcp') finds a label
    labelsCreated,  \* how many times createLabel('keep-mcp') has been called
    dirty,          \* local changes not yet committed by a successful sync()
    unsafe,         \* the process-wide UNSAFE_MODE flag
    calls,          \* how many handler calls have been made
    call            \* the last handler call: what was asked, how it ended, its client calls

vars == <<notes, labelExists, labelsCreated, dirty, unsafe, calls, call>>

-----------------------------------------------------------------------------
(* Bounds of the model *)

MaxNotes == 2       \* notes in the graph (pre-existing and created)
MaxListLen == 2     \* items of one checklist in the handler specification
MaxItems == 3       \* descriptors of one create_list call (specification SpecList)
MaxCalls == 2       \* handler calls of one behaviour

(* Program constants *)

SORT_DELTA == 10000 \* gkeepapi List.SORT_DELTA, read at cli.py:170
Radix == 10 * SORT_DELTA  \* sort keys are held as two limbs <<hi, lo>> = hi * Radix + lo

NONE == "none"      \* Python's None for an optional string argument
Vals == {"x"}       \* the strings a caller passes
Opt == Vals \cup {NONE}
OptBool == {NONE, "true", "false"}

-----------------------------------------------------------------------------
(* Sort keys.  random.randint(1000000000, 9999999999) exceeds 32 bits, so a *)
(* key is the pair <<hi, lo>> with value hi * Radix + lo, 0 <= lo < Radix.  *)

SortBases == { <<10000, 0>>, <<12345, 5000>>, <<99999, 99999>> }

NoSort == <<0, 0>>  \* add(text, checked) without a sort: the library picks one

KeyLess(k1, k2) == k1[1] < k2[1] \/ (k1[1] = k2[1] /\ k1[2] < k2[2])

\* Variant: the decrement is left out
SortStepSame(k) == k

\* sort -= note.SORT_DELTA, with a borrow from the high limb
SortStep(k) ==
    IF k[2] >= SORT_DELTA THEN <<k[1], k[2] - SORT_DELTA>>
    ELSE <<k[1] - 1, k[2] + Radix - SORT_DELTA>>

-----------------------------------------------------------------------------
(* The note graph *)

Item(text, checked, sort) ==
    [text |-> text, checked |-> checked, sort |-> sort, parent |-> 0, deleted |-> FALSE]

Note(kind, title, text, labelled, mine) ==
    [kind |-> kind, title |-> title, text |-> text, labelled |-> labelled,
     deleted |-> FALSE, items |-> <<>>, mine |-> mine]

NoteIds == 1..Len(notes)

\* keep.get(note_id): the note, or absent
Present(id) == id \in NoteIds

\* note.items: the items not marked deleted
LiveItems(n) == { i \in 1..Len(n.items) : ~n.items[i].deleted }

\* Section 4.1: true when the note carries the sentinel label or unsafe mode is on
can_modify_note(n) == n.labelled \/ unsafe

-----------------------------------------------------------------------------
(* The record of a handler call *)

E(op) == [op |-> op, p |-> 0, c |-> 0, key |-> NoSort]
EAdd(key) == [op |-> "add", p |-> 0, c |-> 0, key |-> key]
EIndent(p, c) == [op |-> "indent", p |-> p, c |-> c, key |-> NoSort]

\* op and its note and item ids; result: "record", "message" (a returned JSON
\* string), "envelope" (the returned {"error": ...}) or "raised" (a fault that
\* leaves the handler); err: the kind of failure; log: the client calls, in order;
\* items: the descriptors create_list was given
Call(op, target, item, result, err, log) ==
    [op |-> op, target |-> target, item |-> item, result |-> result, err |-> err,
     log |-> log, items |-> <<>>]

\* The call's last client call is sync()
Synced(log) == log # <<>> /\ log[Len(log)].op = "sync"

NoCall == Call("none", 0, 0, "none", "none", <<>>)

\* The store is left as it was
Untouched == UNCHANGED <<notes, labelExists, labelsCreated, dirty>>

Tick == /\ calls < MaxCalls
        /\ calls' = calls + 1
        /\ UNCHANGED unsafe

-----------------------------------------------------------------------------
(* find (cli.py 12-32) *)

FindExcept(log) == Call("find", 0, 0, "envelope", "Upstream", log)

\* The content of the serialized result is serialize_note's and is not modelled.
find(up) ==
    /\ Tick
    /\ Untouched
    /\ call' = IF up = "client"
               THEN FindExcept(<<E("get_client")>>)
               ELSE Call("find", 0, 0, "record", "none", <<E("get_client"), E("find")>>)

-----------------------------------------------------------------------------
(* create_note (cli.py 34-63) *)

\* Variant: the fault is not caught
CreateNoteExceptRaises(id, log) == Call("create_note", id, 0, "raised", "Upstream", log)

CreateNoteExcept(id, log) == Call("create_note", id, 0, "envelope", "Upstream", log)

\* Variant: the label is not added
NotTagged(n) == n

\* note.labels.add(label)
Tagged(n) == [n EXCEPT !.labelled = TRUE]

\* label = keep.findLabel('keep-mcp'); if not label: label = keep.createLabel('keep-mcp')
LabelLog == IF labelExists THEN <<E("findLabel")>> ELSE <<E("findLabel"), E("createLabel")>>

GetOrCreateLabel ==
    /\ labelExists' = TRUE
    /\ labelsCreated' = IF labelExists THEN labelsCreated ELSE labelsCreated + 1

create_note(title, text, up) ==
    /\ Tick
    /\ IF up = "client"
       THEN /\ Untouched
            /\ call' = CreateNoteExcept(0, <<E("get_client")>>)
       ELSE LET id == Len(notes) + 1
                log == <<E("get_client"), E("createNote")>> \o LabelLog
                           \o <<E("labels.add"), E("sync")>>
            IN  /\ Len(notes) < MaxNotes
                /\ notes' = Append(notes, Tagged(Note("note", title, text, FALSE, TRUE)))
                /\ GetOrCreateLabel
                /\ IF up = "sync"
                   THEN /\ dirty' = TRUE
                        /\ call' = CreateNoteExcept(id, log)
                   ELSE /\ dirty' = FALSE
                        /\ call' = Call("create_note", id, 0, "record", "none", log)

-----------------------------------------------------------------------------
(* update_note (cli.py 65-96) *)

UpdateNoteRaise(err, id, log) == Call("update_note", id, 0, "raised", err, log)

\* Variant: the safety check is left out
AlwaysAllowed(n) == TRUE

\* if not can_modify_note(note): raise ValueError(...)
UpdateNoteGuard(n) == can_modify_note(n)

UpdateNoteLogNoSync(title, text) ==
    <<E("get_client"), E("get")>>
        \o (IF title # NONE THEN <<E("set_title")>> ELSE <<>>)
        \o (IF text # NONE THEN <<E("set_text")>> ELSE <<>>)

\* The client calls of a call that passes its checks
UpdateNoteLog(title, text) == UpdateNoteLogNoSync(title, text) \o <<E("sync")>>

update_note(id, title, text, up) ==
    /\ Tick
    /\ IF up = "client"
       THEN Untouched /\ call' = UpdateNoteRaise("Upstream", id, <<E("get_client")>>)
       ELSE IF ~Present(id)
       THEN Untouched /\ call' = UpdateNoteRaise("NotFound", id, <<E("get_client"), E("get")>>)
       ELSE IF ~UpdateNoteGuard(notes[id])
       THEN Untouched /\ call' = UpdateNoteRaise("Forbidden", id, <<E("get_client"), E("get")>>)
       ELSE /\ notes' = [notes EXCEPT ![id].title = IF title # NONE THEN title ELSE @,
                                      ![id].text = IF text # NONE THEN text ELSE @]
            /\ UNCHANGED <<labelExists, labelsCreated>>
            /\ IF up = "sync"
               THEN /\ dirty' = (dirty \/ title # NONE \/ text # NONE)
                    /\ call' = UpdateNoteRaise("Upstream", id, UpdateNoteLog(title, text))
               ELSE /\ dirty' = IF Synced(UpdateNoteLog(title, text)) THEN FALSE
                              ELSE (dirty \/ title # NONE \/ text # NONE)
                    /\ call' = Call("update_note", id, 0, "record", "none",
                                    UpdateNoteLog(title, text))

-----------------------------------------------------------------------------
(* delete_note (cli.py 98-123) *)

DeleteNoteRaise(err, id, log) == Call("delete_note", id, 0, "raised", err, log)

\* if not can_modify_note(note): raise ValueError(...)
DeleteNoteGuard(n) == can_modify_note(n)

delete_note(id, up) ==
    /\ Tick
    /\ IF up = "client"
       THEN Untouched /\ call' = DeleteNoteRaise("Upstream", id, <<E("get_client")>>)
       ELSE IF ~Present(id)
       THEN Untouched /\ call' = DeleteNoteRaise("NotFound", id, <<E("get_client"), E("get")>>)
       ELSE IF ~DeleteNoteGuard(notes[id])
       THEN Untouched /\ call' = DeleteNoteRaise("Forbidden", id, <<E("get_client"), E("get")>>)
       ELSE LET log == <<E("get_client"), E("get"), E("delete"), E("sync")>>
            IN  /\ notes' = [notes EXCEPT ![id].deleted = TRUE]
                /\ UNCHANGED <<labelExists, labelsCreated>>
                /\ IF up = "sync"
                   THEN /\ dirty' = TRUE
                        /\ call' = DeleteNoteRaise("Upstream", id, log)
                   ELSE /\ dirty' = FALSE
                        /\ call' = Call("delete_note", id, 0, "message", "none", log)

-----------------------------------------------------------------------------
(* create_list (cli.py 125-200) *)

\* An item descriptor: a dict with optional 'id' and 'super_list_item_id', or a
\* plain string (dict = FALSE)
Desc(id, parent, checked) ==
    [dict |-> TRUE, id |-> id, parent |-> parent, text |-> "x", checked |-> checked]

StrItem == [dict |-> FALSE, id |-> NONE, parent |-> NONE, text |-> "x", checked |-> FALSE]

CreateListExcept(id, log) == Call("create_list", id, 0, "envelope", "Upstream", log)

\* sort after i - 1 executions of  sort -= note.SORT_DELTA
RECURSIVE KeyAt(_, _)
KeyAt(base, i) == IF i = 1 THEN base ELSE SortStep(KeyAt(base, i - 1))

\* First pass: list_item = note.add(text, checked, sort); item_mapping[i] = list_item.
\* The new list is empty, so the item of descriptor i is item i.
Pass1(items, base) ==
    [i \in 1..Len(items) |-> Item(items[i].text, items[i].checked, KeyAt(base, i))]

Pass1Log(items, base) == [i \in 1..Len(items) |-> EAdd(KeyAt(base, i))]

\* isinstance(item, dict) and item.get('id')
HasId(d) == d.dict /\ d.id # NONE

\* isinstance(item, dict) and item.get('super_list_item_id')
HasParent(d) == d.dict /\ d.parent # NONE

IdKeys(items) == { items[i].id : i \in { j \in 1..Len(items) : HasId(items[j]) } }

\* The lookup in which the first descriptor carrying an id is kept
IdToIndexFirst(items) ==
    [k \in IdKeys(items) |->
        CHOOSE i \in 1..Len(items) :
            /\ HasId(items[i]) /\ items[i].id = k
            /\ \A j \in 1..(i - 1) : ~(HasId(items[j]) /\ items[j].id = k)]

\* id_to_index[item['id']] = i for i = 0, 1, ...: a later descriptor overwrites
id_to_index(items) ==
    [k \in IdKeys(items) |->
        CHOOSE i \in 1..Len(items) :
            /\ HasId(items[i]) /\ items[i].id = k
            /\ \A j \in (i + 1)..Len(items) : ~(HasId(items[j]) /\ items[j].id = k)]

\* parent_index = id_to_index.get(super_id); 0 stands for None
parent_index(items, i) ==
    IF HasParent(items[i]) /\ items[i].parent \in DOMAIN id_to_index(items)
    THEN id_to_index(items)[items[i].parent]
    ELSE 0

\* parent_item.indent(child_item) of the client library: "Does nothing if the
\* target has subitems", else records the child under the parent.
indent(its, p, c) ==
    IF \E j \in 1..Len(its) : its[j].parent = c
    THEN its
    ELSE [its EXCEPT ![c].parent = p]

\* Second pass, descriptors i..Len(items)
RECURSIVE Pass2(_, _, _)
Pass2(items, its, i) ==
    IF i > Len(items) THEN its
    ELSE IF parent_index(items, i) # 0
         THEN Pass2(items, indent(its, parent_index(items, i), i), i + 1)
         ELSE Pass2(items, its, i + 1)

RECURSIVE Pass2Log(_, _)
Pass2Log(items, i) ==
    IF i > Len(items) THEN <<>>
    ELSE (IF parent_index(items, i) # 0
          THEN <<EIndent(parent_index(items, i), i)>> ELSE <<>>)
         \o Pass2Log(items, i + 1)

\* Variant: sync() is called between the two passes
CreateListLogEarlySync(items, base) ==
    <<E("get_client"), E("createList")>> \o LabelLog \o <<E("labels.add")>>
        \o Pass1Log(items, base) \o <<E("sync")>> \o Pass2Log(items, 1)

\* The client calls of create_list, in order
CreateListLog(items, base) ==
    <<E("get_client"), E("createList")>> \o LabelLog \o <<E("labels.add")>>
        \o Pass1Log(items, base) \o Pass2Log(items, 1) \o <<E("sync")>>

create_list(title, items, base, up) ==
    /\ Tick
    /\ IF up = "client"
       THEN /\ Untouched
            /\ call' = CreateListExcept(0, <<E("get_client")>>)
       ELSE LET id == Len(notes) + 1
                log == CreateListLog(items, base)
                new == [Tagged(Note("list", title, NONE, FALSE, TRUE))
                            EXCEPT !.items = Pass2(items, Pass1(items, base), 1)]
            IN  /\ Len(notes) < MaxNotes
                /\ notes' = Append(notes, new)
                /\ GetOrCreateLabel
                /\ IF up = "sync"
                   THEN /\ dirty' = TRUE
                        /\ call' = [CreateListExcept(id, log) EXCEPT !.items = items]
                   ELSE /\ dirty' = ~Synced(log)
                        /\ call' = [Call("create_list", id, 0, "record", "none", log)
                                        EXCEPT !.items = items]

-----------------------------------------------------------------------------
(* add_list_item (cli.py 202-234) *)

AddListItemRaise(err, id, log) == Call("add_list_item", id, 0, "raised", err, log)

\* if not can_modify_note(note): raise ValueError(...)
AddListItemGuard(n) == can_modify_note(n)

add_list_item(id, text, checked, up) ==
    /\ Tick
    /\ IF up = "client"
       THEN Untouched /\ call' = AddListItemRaise("Upstream", id, <<E("get_client")>>)
       ELSE IF ~Present(id)
       THEN Untouched /\ call' = AddListItemRaise("NotFound", id, <<E("get_client"), E("get")>>)
       ELSE IF notes[id].kind # "list"
       THEN Untouched /\ call' = AddListItemRaise("WrongKind", id, <<E("get_client"), E("get")>>)
       ELSE IF ~AddListItemGuard(notes[id])
       THEN Untouched /\ call' = AddListItemRaise("Forbidden", id, <<E("get_client"), E("get")>>)
       ELSE LET log == <<E("get_client"), E("get"), EAdd(NoSort), E("sync")>>
            IN  /\ Len(notes[id].items) < MaxListLen
                /\ notes' = [notes EXCEPT ![id].items = Append(@, Item(text, checked, NoSort))]
                /\ UNCHANGED <<labelExists, labelsCreated>>
                /\ IF up = "sync"
                   THEN /\ dirty' = TRUE
                        /\ call' = AddListItemRaise("Upstream", id, log)
                   ELSE /\ dirty' = FALSE
                        /\ call' = Call("add_list_item", id, Len(notes[id].items) + 1,
                                        "record", "none", log)

-----------------------------------------------------------------------------
(* update_list_item (cli.py 236-283) and delete_list_item (cli.py 285-326) *)

\* Variant: the id comparison is left out
FindItemAny(n, item_id) == IF LiveItems(n) # {} THEN CHOOSE i \in LiveItems(n) : TRUE ELSE 0

\* for list_item in note.items: if list_item.id == item_id: item = list_item; break
\* (0 stands for None)
FindItem(n, item_id) == IF item_id \in LiveItems(n) THEN item_id ELSE 0

UpdateListItemRaise(err, id, item, log) ==
    Call("update_list_item", id, item, "raised", err, log)

\* if not can_modify_note(note): raise ValueError(...)
UpdateListItemGuard(n) == can_modify_note(n)

update_list_item(id, item_id, text, checked, up) ==
    /\ Tick
    /\ LET raise(err, log) == UpdateListItemRaise(err, id, item_id, log)
           pre == <<E("get_client"), E("get")>>
       IN
       IF up = "client" THEN Untouched /\ call' = raise("Upstream", <<E("get_client")>>)
       ELSE IF ~Present(id) THEN Untouched /\ call' = raise("NotFound", pre)
       ELSE IF notes[id].kind # "list" THEN Untouched /\ call' = raise("WrongKind", pre)
       ELSE IF ~UpdateListItemGuard(notes[id]) THEN Untouched /\ call' = raise("Forbidden", pre)
       ELSE IF FindItem(notes[id], item_id) = 0
       THEN Untouched /\ call' = raise("NotFound", pre \o <<E("items")>>)
       ELSE LET it == FindItem(notes[id], item_id)
                log == pre \o <<E("items")>>
                        \o (IF text # NONE THEN <<E("set_item_text")>> ELSE <<>>)
                        \o (IF checked # NONE THEN <<E("set_item_checked")>> ELSE <<>>)
                        \o <<E("sync")>>
            IN  /\ notes' = [notes EXCEPT
                        ![id].items[it].text = IF text # NONE THEN text ELSE @,
                        ![id].items[it].checked = IF checked # NONE THEN checked = "true" ELSE @]
                /\ UNCHANGED <<labelExists, labelsCreated>>
                /\ IF up = "sync"
                   THEN /\ dirty' = (dirty \/ text # NONE \/ checked # NONE)
                        /\ call' = raise("Upstream", log)
                   ELSE /\ dirty' = FALSE
                        /\ call' = Call("update_list_item", id, item_id, "record", "none", log)

DeleteListItemRaise(err, id, item, log) ==
    Call("delete_list_item", id, item, "raised", err, log)

\* if not can_modify_note(note): raise ValueError(...)
DeleteListItemGuard(n) == can_modify_note(n)

delete_list_item(id, item_id, up) ==
    /\ Tick
    /\ LET raise(err, log) == DeleteListItemRaise(err, id, item_id, log)
           pre == <<E("get_client"), E("get")>>
       IN
       IF up = "client" THEN Untouched /\ call' = raise("Upstream", <<E("get_client")>>)
       ELSE IF ~Present(id) THEN Untouched /\ call' = raise("NotFound", pre)
       ELSE IF notes[id].kind # "list" THEN Untouched /\ call' = raise("WrongKind", pre)
       ELSE IF ~DeleteListItemGuard(notes[id]) THEN Untouched /\ call' = raise("Forbidden", pre)
       ELSE IF FindItem(notes[id], item_id) = 0
       THEN Untouched /\ call' = raise("NotFound", pre \o <<E("items")>>)
       ELSE LET it == FindItem(notes[id], item_id)
                log == pre \o <<E("items"), E("item.delete"), E("sync")>>
            IN  /\ notes' = [notes EXCEPT ![id].items[it].deleted = TRUE]
                /\ UNCHANGED <<labelExists, labelsCreated>>
                /\ IF up = "sync"
                   THEN /\ dirty' = TRUE
                        /\ call' = raise("Upstream", log)
                   ELSE /\ dirty' = FALSE
                        /\ call' = Call("delete_list_item", id, item_id, "record", "none", log)

-----------------------------------------------------------------------------
(* The handler specification: any sequence of handler calls *)

Up == {"ok", "client", "sync"}

\* Notes that exist before the server starts: a plain note and a checklist of one
\* item, each carrying the sentinel label or not
OldNote(labelled) ==
    [Note("note", "o", "o", labelled, FALSE) EXCEPT !.items = <<>>]

OldList(labelled) ==
    [Note("list", "o", NONE, labelled, FALSE) EXCEPT !.items = <<Item("o", FALSE, NoSort)>>]

InitStores ==
    {<<>>} \cup { <<OldNote(l)>> : l \in BOOLEAN } \cup { <<OldList(l)>> : l \in BOOLEAN }

\* The item lists create_list is given in the handler specification
SmallItems == { <<>>, <<Desc("a", NONE, FALSE), Desc(NONE, "a", TRUE)>> }

\* and the random base it draws there
SmallBases == { <<12345, 5000>> }

Init ==
    /\ notes \in InitStores
    /\ labelExists \in BOOLEAN
    /\ (\E i \in 1..Len(notes) : notes[i].labelled) => labelExists
    /\ labelsCreated = 0
    /\ dirty = FALSE
    /\ unsafe \in BOOLEAN
    /\ calls = 0
    /\ call = NoCall

IdArgs == 0..Len(notes)
ItemArgs == 0..MaxListLen

Next ==
    \/ \E up \in {"ok", "client"} : find(up)
    \/ \E title \in Opt, text \in Opt, up \in Up : create_note(title, text, up)
    \/ \E id \in IdArgs, title \in Opt, text \in Opt, up \in Up : update_note(id, title, text, up)
    \/ \E id \in IdArgs, up \in Up : delete_note(id, up)
    \/ \E title \in Opt, items \in SmallItems, base \in SmallBases, up \in Up :
            create_list(title, items, base, up)
    \/ \E id \in IdArgs, text \in Vals, checked \in BOOLEAN, up \in Up :
            add_list_item(id, text, checked, up)
    \/ \E id \in IdArgs, it \in ItemArgs, text \in Opt, checked \in OptBool, up \in Up :
            update_list_item(id, it, text, checked, up)
    \/ \E id \in IdArgs, it \in ItemArgs, up \in Up : delete_list_item(id, it, up)

Spec == Init /\ [][Next]_vars

-----------------------------------------------------------------------------
(* The list-builder specification: one create_list call on every list of up *)
(* to MaxItems descriptors                                                  *)

ListIds == {NONE, "a", "b"}

Descs == { Desc(id, parent, FALSE) : id \in ListIds, parent \in ListIds } \cup {StrItem}

RECURSIVE SeqsUpTo(_, _)
SeqsUpTo(S, n) ==
    IF n = 0 THEN {<<>>}
    ELSE LET shorter == SeqsUpTo(S, n - 1)
         IN  shorter \cup { Append(q, x) : q \in { r \in shorter : Len(r) = n - 1 }, x \in S }

InitList ==
    /\ notes = <<>>
    /\ labelExists \in BOOLEAN
    /\ labelsCreated = 0
    /\ dirty = FALSE
    /\ unsafe = FALSE
    /\ calls = 0
    /\ call = NoCall

NextList ==
    /\ call = NoCall
    /\ \E items \in SeqsUpTo(Descs, MaxItems), base \in SortBases, up \in Up :
            create_list("x", items, base, up)

SpecList == InitList /\ [][NextList]_vars

-----------------------------------------------------------------------------
(* Properties *)

ListItemOps == {"add_list_item", "update_list_item", "delete_list_item"}
GuardedOps == {"update_note", "delete_note"} \cup ListItemOps
MutatingOps == {"create_note", "create_list"} \cup GuardedOps
CatchingOps == {"find", "create_note", "create_list"}

Ops(log) == { log[i].op : i \in 1..Len(log) }
SyncCount(log) == Cardinality({ i \in 1..Len(log) : log[i].op = "sync" })

\* The call just made (call') reached keep.get and found a note that, before the
\* call, lacked the sentinel label, with unsafe mode off
OnUnlabelled ==
    /\ call'.op \in GuardedOps
    /\ "get" \in Ops(call'.log)
    /\ ~unsafe
    /\ call'.target \in 1..Len(notes)
    /\ ~notes[call'.target].labelled

NothingDone ==
    /\ notes' = notes
    /\ dirty' = dirty
    /\ "sync" \notin Ops(call'.log)

\* C1 as stated: every guarded handler called on a note without the sentinel
\* label (unsafe mode off) fails with Forbidden, mutates nothing and does not sync.
C1_AlwaysForbidden ==
    [][OnUnlabelled => (call'.err = "Forbidden" /\ NothingDone)]_vars

\* C1, amended: every guarded handler called on a note without the sentinel label
\* (unsafe mode off) fails, mutates nothing and does not sync; the failure is
\* Forbidden, except that a list-item handler given a plain note fails with
\* WrongKind, which is checked first.
C1_NoMutationWithoutLabel ==
    [][OnUnlabelled =>
        /\ call'.result = "raised"
        /\ NothingDone
        /\ call'.err = IF call'.op \in ListItemOps /\ notes[call'.target].kind # "list"
                       THEN "WrongKind" ELSE "Forbidden"]_vars

C1_Witness ==
    /\ ~unsafe
    /\ call.op = "update_note"
    /\ call.err = "Forbidden"
    /\ ~notes[call.target].labelled

\* C2 as stated: no handler ever lets a failure out as a raised fault.
C2_NeverRaises == call.result # "raised"

\* C2, amended: find, create_note and create_list return the error envelope for
\* every failure and never raise; update_note, delete_note, add_list_item,
\* update_list_item and delete_list_item raise every failure (NotFound, WrongKind,
\* Forbidden, a client or sync failure) out of the handler.
C2_EnvelopeOnlyWhereCaught ==
    /\ call.op \in CatchingOps =>
            /\ call.result \in {"record", "envelope"}
            /\ (call.result = "envelope") <=> (call.err # "none")
    /\ call.op \in GuardedOps =>
            /\ call.result \in {"record", "message", "raised"}
            /\ (call.result = "raised") <=> (call.err # "none")

C2_Witness ==
    /\ call.op = "create_note"
    /\ call.result = "envelope"
    /\ "sync" \in Ops(call.log)

\* C3: update_list_item and delete_list_item, called on an existing checklist that
\* may be modified with an item id that is not among its items, fail with NotFound,
\* change nothing and do not sync.
C3_UnknownItemNotFound ==
    [][(/\ call'.op \in {"update_list_item", "delete_list_item"}
        /\ "get" \in Ops(call'.log)
        /\ call'.target \in 1..Len(notes)
        /\ notes[call'.target].kind = "list"
        /\ can_modify_note(notes[call'.target])
        /\ call'.item \notin LiveItems(notes[call'.target]))
       => (call'.err = "NotFound" /\ call'.result = "raised" /\ NothingDone)]_vars

C3_Witness ==
    /\ call.op = "delete_list_item"
    /\ call.err = "NotFound"
    /\ call.target \in 1..Len(notes)
    /\ notes[call.target].kind = "list"
    /\ Len(notes[call.target].items) > 0
    /\ "items" \in Ops(call.log)

\* C4: a mutating handler that returns its result has called sync exactly once, as
\* its last client call (in create_list after every add and every indent), and
\* leaves no pending change.
C4_SyncOnceLast ==
    (call.op \in MutatingOps /\ call.result \in {"record", "message"}) =>
        /\ SyncCount(call.log) = 1
        /\ Synced(call.log)
        /\ ~dirty

C4_Witness ==
    /\ call.op = "create_list"
    /\ call.result = "record"
    /\ "indent" \in Ops(call.log)
    /\ ~dirty

\* The sort keys create_list passed to note.add, in descriptor order
AddKeys(log) ==
    LET adds == SelectSeq(log, LAMBDA e : e.op = "add")
    IN  [i \in 1..Len(adds) |-> adds[i].key]

\* k + SORT_DELTA on the two limbs
KeyPlusDelta(k) ==
    IF k[2] + SORT_DELTA < Radix THEN <<k[1], k[2] + SORT_DELTA>>
    ELSE <<k[1] + 1, k[2] + SORT_DELTA - Radix>>

\* C5: within one create_list call note.add is given one sort key per descriptor;
\* the first is the random base, each next one is the previous one minus
\* SORT_DELTA, they strictly decrease in descriptor order and no two are equal.
C5_SortKeysDecrease ==
    call.op = "create_list" =>
        LET keys == AddKeys(call.log) IN
        /\ call.target # 0 => Len(keys) = Len(call.items)
        /\ Len(keys) > 0 => keys[1] \in SortBases
        /\ \A i \in 1..Len(keys) : keys[i][2] \in 0..(Radix - 1)
        /\ \A i \in 1..(Len(keys) - 1) : KeyPlusDelta(keys[i + 1]) = keys[i]
        /\ \A i, j \in 1..Len(keys) : i < j => KeyLess(keys[j], keys[i])
        /\ \A i, j \in 1..Len(keys) : i # j => keys[i] # keys[j]

C5_Witness ==
    /\ call.op = "create_list"
    /\ Len(AddKeys(call.log)) >= 3
    /\ AddKeys(call.log)[1] = <<12345, 5000>>
    /\ AddKeys(call.log)[2] = <<12344, 95000>>

\* The list a create_list call built, when it got as far as building one
Built == call.op = "create_list" /\ call.target # 0
BuiltItems == notes[call.target].items

\* Descriptors other than i that carry the correlation id descriptor i names as parent
Carriers(items, i) ==
    { j \in 1..Len(items) : j # i /\ HasId(items[j]) /\ items[j].id = items[i].parent }

\* C6: every descriptor whose parent id is the correlation id of another descriptor
\* of the batch has its item indented under the item of such a descriptor.
C6_ChildUnderParent ==
    Built =>
        \A i \in 1..Len(call.items) :
            (HasParent(call.items[i]) /\ Carriers(call.items, i) # {})
                => BuiltItems[i].parent \in Carriers(call.items, i)

\* Descriptor i names a parent that no descriptor carries, or its own correlation id
Unresolvable(items, i) ==
    /\ HasParent(items[i])
    /\ \/ \A j \in 1..Len(items) : ~(HasId(items[j]) /\ items[j].id = items[i].parent)
       \/ (HasId(items[i]) /\ items[i].id = items[i].parent)

\* C7: a descriptor with an unresolvable parent reference gets no indent call and
\* its item keeps no parent.
C7_UnresolvableSkipped ==
    Built =>
        \A i \in 1..Len(call.items) :
            Unresolvable(call.items, i) =>
                /\ BuiltItems[i].parent = 0
                /\ \A k \in 1..Len(call.log) :
                        ~(call.log[k].op = "indent" /\ call.log[k].c = i)

\* C8: a parent reference naming a correlation id that several descriptors carry
\* is resolved to the first of them.
C8_FirstOccurrenceWins ==
    Built =>
        \A k \in 1..Len(call.log) :
            call.log[k].op = "indent" =>
                call.log[k].p = IdToIndexFirst(call.items)[call.items[call.log[k].c].parent]

\* C9: every note the handlers created carries the sentinel label and passes the
\* safety policy, so no guarded handler called on it ends Forbidden; the label
\* exists once a note was created, and createLabel has been called at most once.
C9_CreatedNotesLabelled ==
    /\ labelsCreated <= 1
    /\ \A i \in 1..Len(notes) :
            notes[i].mine => (notes[i].labelled /\ labelExists /\ can_modify_note(notes[i]))
    /\ (call.op \in GuardedOps /\ call.target \in 1..Len(notes) /\ notes[call.target].mine)
            => call.err # "Forbidden"

C9_Witness ==
    /\ ~unsafe
    /\ labelsCreated = 1
    /\ Len(notes) >= 2
    /\ notes[1].mine /\ notes[1].kind = "note"
    /\ notes[2].mine /\ notes[2].kind = "list"

====
